---- MODULE Spec2Model ----
(***************************************************************************)
(* Deployment pipeline of @juspay/sveltekit-aws-adapter: adapter.adapt     *)
(* (src/index.ts) and the four AWS operations it awaits (dist/aws.js):     *)
(* uploadToS3, deployLambdaFunction, setupCloudFrontTrigger and            *)
(* invalidateCache.  Several deployments (runs of adapt) share one bucket, *)
(* one Lambda function and one CloudFront distribution; every await of the *)
(* code is a point where another run, or an update of the distribution     *)
(* made outside this program, may take a step.                             *)
(***************************************************************************)
EXTENDS Integers, Sequences, FiniteSets, TLC

VARIABLES
    pc,           \* pc[r]: where run r of adapt stands
    trace,        \* trace[r]: the stages adapt has started, each with its status
    err,          \* err[r]: the error adapt rejected with ("none" while there is none)
    tree,         \* the directory out/client that the builder writes
    configInput,  \* the configuration the adapter was created with
    defaultConfig,\* the module's defaultConfig object
    config,       \* config[r]: the configuration adapt works with in run r
    store,        \* keys of the objects in the bucket
    stack,        \* stack[r]: call stack of uploadToS3 (one frame per directory)
    skipped,      \* skipped[r]: keys whose upload failed and was logged by the
                  \* uploadToS3 call in progress
    zipFile,      \* zipFile[r]: state of build/lambda.zip on run r's disk
    zipSource,    \* the files under the source of a zipDirectory call (their paths
                  \* relative to it, as sequences of names)
    zipOut,       \* the out of that call: whether it is under source, and its path
                  \* (relative to source when it is under it)
    zipEntries,   \* what archive.glob has put in the archive of that call
    codeCalls,    \* codeCalls[r]: outcomes of the UpdateFunctionCode commands sent
    publishCalls, \* publishCalls[r]: outcomes of the PublishVersion commands sent
    fnCode,       \* run whose archive is the function's current code (0: none)
    fnVersion,    \* number of the function's latest published version
    lambdaVersion,\* lambdaVersion[r]: value returned by deployLambdaFunction
    dist,         \* the distribution: its configuration and its ETag
    cfg,          \* cfg[r]: DistributionConfig of the first GetDistributionConfig
    cfgETag,      \* cfgETag[r]: ETag of the response run r took its DistributionConfig
                  \* from (0: none yet); the code does not keep it
    updated,      \* updated[r]: updatedAssociations
    ifMatch,      \* ifMatch[r]: ETag of the second GetDistributionConfig
    updCalls,     \* updCalls[r]: UpdateDistribution commands sent by run r
    wrote,        \* wrote[r]: ETag the distribution got from run r's write (0: none)
    invalidations,\* invalidations[r]: Paths of the CreateInvalidation commands sent
    external      \* updates of the distribution made outside this program

\* what adapt is given, and what it makes of it
settings == <<tree, configInput, defaultConfig, config>>

\* a call of zipDirectory with any source and any out
zipCall == <<zipSource, zipOut, zipEntries>>

vars == <<pc, trace, err, settings, zipCall, store, stack, skipped, zipFile, codeCalls,
          publishCalls, fnCode, fnVersion, lambdaVersion, dist, cfg, cfgETag,
          updated, ifMatch, updCalls, wrote, invalidations, external>>

---------------------------------------------------------------------------
(* Bounds *)

\* updates of the distribution by writers other than this program
MaxExternal == 1

\* the deployments (runs of adapt) against the same bucket, function and
\* distribution: one after the other, or at the same time from two machines
Runs == {1, 2}

---------------------------------------------------------------------------
(* Values *)

Undefined == "undefined"
OriginRequest == "origin-request"
ViewerRequest == "viewer-request"
\* FunctionArn of GetFunctionConfiguration's response
FunctionArn == "arn:f"
\* an association left by an earlier deployment, and one owned by somebody else
OldAssociation == [EventType |-> OriginRequest, LambdaFunctionARN |-> "arn:f:0"]
OtherAssociation == [EventType |-> ViewerRequest, LambdaFunctionARN |-> "arn:g:7"]

Stages == {"bundle", "upload", "zip", "deploy", "trigger", "invalidate"}

\* out/client: one file at the top and one in a sub-directory
ClientDir ==
    << [name |-> "index.html", kind |-> "file", children |-> <<>>],
       [name |-> "_app", kind |-> "dir", children |->
            << [name |-> "app.js", kind |-> "file", children |-> <<>>] >>] >>

\* a response as the model holds it: whether it has DistributionConfig and its
\* DefaultCacheBehavior; of the latter the ViewerProtocolPolicy and the
\* LambdaFunctionAssociations (Quantity, and Items when there are any); of the
\* former the Comment (a number that counts its changes)
NoConfig == [defined |-> FALSE, dcb |-> FALSE, Policy |-> "none", Quantity |-> 0,
             hasItems |-> FALSE, Items |-> <<>>, Comment |-> 0]

\* the distribution configurations a run may find
InitConfigs ==
    { NoConfig,
      [NoConfig EXCEPT !.defined = TRUE],
      [defined |-> TRUE, dcb |-> TRUE, Policy |-> "https-only", Quantity |-> 0,
       hasItems |-> FALSE, Items |-> <<>>, Comment |-> 0],
      [defined |-> TRUE, dcb |-> TRUE, Policy |-> "https-only", Quantity |-> 1,
       hasItems |-> TRUE, Items |-> <<OtherAssociation>>, Comment |-> 0],
      [defined |-> TRUE, dcb |-> TRUE, Policy |-> "https-only", Quantity |-> 2,
       hasItems |-> TRUE, Items |-> <<OldAssociation, OtherAssociation>>,
       Comment |-> 0] }

---------------------------------------------------------------------------
(* Configuration values and deepMerge *)

\* JavaScript values: undefined, strings and objects (a function from the
\* object's keys to their values)
JsUndefined == [type |-> "undefined"]
JsString(s) == [type |-> "string", str |-> s]
JsObject(f) == [type |-> "object", get |-> f]

\* the Error deepMerge throws
Thrown == [type |-> "error"]

\* obj && typeof obj === 'object'
isObject(obj) == obj.type = "object"

\* whether a value counts as true in a condition
Truthy(v) == v.type = "object" \/ (v.type = "string" /\ v.str # "")

\* value[key]
Get(value, key) ==
    IF value.type = "object" /\ key \in DOMAIN value.get THEN value.get[key]
    ELSE JsUndefined

\* the defaultConfig object as the module creates it
Defaults ==
    JsObject([s3 |-> JsObject([bucketName |-> JsString(""), prefix |-> JsString(""),
                               region |-> JsString("ap-south-1")]),
              lambda |-> JsObject([functionName |-> JsString(""),
                                   region |-> JsString("us-east-1")]),
              cloudfront |-> JsObject([distributionId |-> JsString(""),
                                       region |-> JsString("us-east-1")])])

\* variant: the value of the source, whatever it is
SourceValue(sourceValue, targetValue) == sourceValue

\* sourceValue ? sourceValue : targetValue
Assigned(sourceValue, targetValue) ==
    IF Truthy(sourceValue) THEN sourceValue ELSE targetValue

\* deepMerge(target, source): the value of target when the call returns (target
\* itself is assigned to, key by key; a nested object of target is copied
\* before it is merged into), or Thrown
RECURSIVE deepMerge(_, _)
deepMerge(target, source) ==
    IF ~isObject(target) \/ ~isObject(source) THEN Thrown
    ELSE JsObject([key \in DOMAIN target.get \cup DOMAIN source.get |->
            IF key \notin DOMAIN source.get THEN target.get[key]
            ELSE LET targetValue == Get(target, key)
                     sourceValue == source.get[key]
                 IN  IF isObject(targetValue) /\ isObject(sourceValue)
                     THEN deepMerge(targetValue, sourceValue)
                     ELSE Assigned(sourceValue, targetValue)])

\* config.s3.prefix as uploadToS3 tests it: a string that is not a non-empty
\* string is as good as ""
S3Prefix(c) ==
    LET v == Get(Get(c, "s3"), "prefix") IN
    IF v.type = "string" THEN v.str ELSE ""

\* a configuration that names a bucket, a prefix, a function and a distribution
DeployConfig ==
    JsObject([s3 |-> JsObject([bucketName |-> JsString("b"), prefix |-> JsString("p"),
                               region |-> JsString("r1")]),
              lambda |-> JsObject([functionName |-> JsString("f"),
                                   region |-> JsString("r2")]),
              cloudfront |-> JsObject([distributionId |-> JsString("d"),
                                       region |-> JsString("r3")])])

---------------------------------------------------------------------------
(* Initial states *)

\* the state before any run has started, but for what the runs are given and
\* what they find
Fresh ==
    /\ pc = [r \in Runs |-> "idle"]
    /\ trace = [r \in Runs |-> <<>>]
    /\ err = [r \in Runs |-> "none"]
    /\ defaultConfig = Defaults
    /\ config = [r \in Runs |-> JsUndefined]
    /\ store = {}
    /\ stack = [r \in Runs |-> <<>>]
    /\ skipped = [r \in Runs |-> {}]
    /\ zipFile = [r \in Runs |-> "none"]
    /\ codeCalls = [r \in Runs |-> <<>>]
    /\ publishCalls = [r \in Runs |-> <<>>]
    /\ fnCode = 0
    /\ fnVersion = 0
    /\ lambdaVersion = [r \in Runs |-> Undefined]
    /\ cfg = [r \in Runs |-> NoConfig]
    /\ cfgETag = [r \in Runs |-> 0]
    /\ updated = [r \in Runs |-> <<>>]
    /\ ifMatch = [r \in Runs |-> 0]
    /\ updCalls = [r \in Runs |-> 0]
    /\ wrote = [r \in Runs |-> 0]
    /\ invalidations = [r \in Runs |-> <<>>]
    /\ external = 0
    /\ zipEntries = [done |-> FALSE, files |-> {}]

\* zipDirectory as adapt calls it: path.join("build") + "/lambda.zip"
BuildZip ==
    /\ zipSource = {}
    /\ zipOut = [inside |-> TRUE, path |-> <<"lambda.zip">>]

Init ==
    /\ Fresh
    /\ BuildZip
    /\ tree = ClientDir
    /\ configInput = DeployConfig
    /\ \E c \in InitConfigs : dist = [config |-> c, etag |-> 1]

---------------------------------------------------------------------------
(* adapter.adapt: the chain of awaited stages *)

\* variant: the archive is made before the assets are uploaded
ContinueZipFirst(s, ok, ver) ==
    IF ~ok
    THEN IF s = "zip" THEN "upload" ELSE "failed"
    ELSE CASE s = "bundle" -> "zip"
           [] s = "zip" -> "upload"
           [] s = "upload" -> "deploy"
           [] s = "deploy" -> IF ver # Undefined THEN "trigger" ELSE "invalidate"
           [] s = "trigger" -> "invalidate"
           [] s = "invalidate" -> "done"

\* variant: the trigger is set up whatever deployLambdaFunction returned
ContinueAlways(s, ok, ver) ==
    IF ~ok
    THEN IF s = "zip" THEN "deploy" ELSE "failed"
    ELSE CASE s = "bundle" -> "upload"
           [] s = "upload" -> "zip"
           [] s = "zip" -> "deploy"
           [] s = "deploy" -> "trigger"
           [] s = "trigger" -> "invalidate"
           [] s = "invalidate" -> "done"

\* what adapt does when stage s has ended (ok: it did not throw; ver: the value
\* deployLambdaFunction returned): the next stage, "done" or "failed".  The
\* promise of zipDirectory carries a .catch that logs, so its failure is not
\* rethrown.
Continue(s, ok, ver) ==
    IF ~ok
    THEN IF s = "zip" THEN "deploy" ELSE "failed"
    ELSE CASE s = "bundle" -> "upload"
           [] s = "upload" -> "zip"
           [] s = "zip" -> "deploy"
           [] s = "deploy" -> IF ver # Undefined THEN "trigger" ELSE "invalidate"
           [] s = "trigger" -> "invalidate"
           [] s = "invalidate" -> "done"

\* the first position of a stage
EntryPc(n) ==
    CASE n = "deploy" -> "deploy_update"
      [] n = "trigger" -> "bind_fetch"
      [] OTHER -> n

\* stage s starts
Begin(tr, s) == Append(tr, [stage |-> s, status |-> "running"])

\* variant: a stage that is not awaited, so that the next starts while it runs
NotAwaited(tr, ok) == tr

\* the stage that runs ends: its promise is settled
Finish(tr, ok) == [tr EXCEPT ![Len(tr)].status = IF ok THEN "ok" ELSE "failed"]

\* stage s of run r ends, with error e when it throws, and adapt goes on
EndStage(r, s, ok, ver, e) ==
    LET n == Continue(s, ok, ver)
        tr == Finish(trace[r], ok)
    IN  /\ pc' = [pc EXCEPT ![r] = EntryPc(n)]
        /\ trace' = [trace EXCEPT ![r] = IF n \in Stages THEN Begin(tr, n) ELSE tr]
        /\ err' = [err EXCEPT ![r] = IF n = "failed" THEN e ELSE @]

\* adapt is called: the configuration is merged into defaultConfig, or
\* deepMerge throws and adapt rejects; then the builder cleans and writes out/,
\* and bundleApp starts
Adapt(r) ==
    /\ pc[r] = "idle"
    /\ LET merged == deepMerge(defaultConfig, configInput) IN
       IF merged = Thrown
       THEN /\ pc' = [pc EXCEPT ![r] = "failed"]
            /\ err' = [err EXCEPT ![r] = "InvalidArguments"]
            /\ UNCHANGED <<trace, defaultConfig, config>>
       ELSE /\ defaultConfig' = merged
            /\ config' = [config EXCEPT ![r] = merged]
            /\ pc' = [pc EXCEPT ![r] = "bundle"]
            /\ trace' = [trace EXCEPT ![r] = Begin(@, "bundle")]
            /\ UNCHANGED err
    /\ UNCHANGED <<tree, configInput, zipCall, store, stack, skipped, zipFile, codeCalls,
                   publishCalls, fnCode, fnVersion, lambdaVersion, dist, cfg,
                   cfgETag, updated, ifMatch, updCalls, wrote, invalidations,
                   external>>

\* bundleApp removes build/ and builds it again, or throws
BundleApp(r) ==
    /\ pc[r] = "bundle"
    /\ \E ok \in BOOLEAN : EndStage(r, "bundle", ok, Undefined, "BuildError")
    /\ zipFile' = [zipFile EXCEPT ![r] = "none"]
    /\ UNCHANGED <<settings, zipCall, store, stack, skipped, codeCalls, publishCalls, fnCode,
                   fnVersion, lambdaVersion, dist, cfg, cfgETag, updated, ifMatch,
                   updCalls, wrote, invalidations, external>>

---------------------------------------------------------------------------
(* uploadToS3 *)

\* variant: the separator is added to an empty prefix too
AlwaysSlash(s3Prefix) == s3Prefix \o "/"

\* const prefix = s3Prefix && s3Prefix.length > 0 ? s3Prefix + "/" : ""
KeyPrefix(s3Prefix) == IF s3Prefix # "" THEN s3Prefix \o "/" ELSE ""

\* Key of the PutObject for item `name` of a directory walked with `prefix`
ObjectKey(prefix, name) == prefix \o name

\* the synchronous part of the walk up to the next PutObject: returns from the
\* directories that are exhausted and enters the sub-directories met on the way
\* (readdir: whether readdirSync of a sub-directory succeeds)
RECURSIVE Advance(_, _)
Advance(st, readdir) ==
    IF st = <<>> THEN [stack |-> <<>>, threw |-> FALSE]
    ELSE LET top == st[Len(st)] IN
         IF top.items = <<>> THEN Advance(SubSeq(st, 1, Len(st) - 1), readdir)
         ELSE LET item == Head(top.items) IN
              IF item.kind = "file" THEN [stack |-> st, threw |-> FALSE]
              ELSE IF ~readdir THEN [stack |-> <<>>, threw |-> TRUE]
              ELSE Advance(Append([st EXCEPT ![Len(st)].items = Tail(top.items)],
                                  [prefix |-> KeyPrefix(top.prefix \o item.name),
                                   items |-> item.children]),
                           readdir)

\* the walk goes on from stack st with the failures sk logged so far, or
\* uploadToS3 throws, or its loop has ended
UploadGoOn(r, st, sk, readdir) ==
    LET a == Advance(st, readdir) IN
    /\ stack' = [stack EXCEPT ![r] = a.stack]
    /\ IF a.threw
       THEN /\ EndStage(r, "upload", FALSE, Undefined, "IOError")
            /\ skipped' = [skipped EXCEPT ![r] = {}]
       ELSE /\ pc' = [pc EXCEPT ![r] = IF a.stack = <<>> THEN "uploaded" ELSE "put"]
            /\ skipped' = [skipped EXCEPT ![r] = sk]
            /\ UNCHANGED <<trace, err>>

\* uploadToS3(clientDir, config.s3.bucketName, config.s3.prefix, ...):
\* readdirSync of the directory, then the walk as far as the first file
UploadToS3(r) ==
    /\ pc[r] = "upload"
    /\ \E listed, readdir \in BOOLEAN :
          IF listed
          THEN UploadGoOn(r, <<[prefix |-> KeyPrefix(S3Prefix(config[r])),
                                items |-> tree]>>, {}, readdir)
          ELSE /\ EndStage(r, "upload", FALSE, Undefined, "IOError")
               /\ UNCHANGED <<stack, skipped>>
    /\ UNCHANGED <<settings, zipCall, store, zipFile, codeCalls, publishCalls, fnCode,
                   fnVersion, lambdaVersion, dist, cfg, cfgETag, updated, ifMatch,
                   updCalls, wrote, invalidations, external>>

\* variant: a catch block that throws the error again
Rethrown(r, rest, key, readdir) ==
    /\ stack' = [stack EXCEPT ![r] = <<>>]
    /\ skipped' = [skipped EXCEPT ![r] = {}]
    /\ EndStage(r, "upload", FALSE, Undefined, "UploadError")

\* catch (error) { console.error(...) }: the failure is logged and the loop
\* goes on with the items that are left
Caught(r, rest, key, readdir) ==
    UploadGoOn(r, rest, skipped[r] \cup {key}, readdir)

\* await s3.send(new PutObjectCommand(...)) for the file at hand: stored, or
\* failed and caught; then the loop goes on
PutObject(r) ==
    /\ pc[r] = "put"
    /\ LET top == stack[r][Len(stack[r])]
           key == ObjectKey(top.prefix, Head(top.items).name)
           rest == [stack[r] EXCEPT ![Len(stack[r])].items = Tail(top.items)]
       IN \E sent, readdir \in BOOLEAN :
            IF sent
            THEN /\ store' = store \cup {key}
                 /\ UploadGoOn(r, rest, skipped[r], readdir)
            ELSE /\ store' = store
                 /\ Caught(r, rest, key, readdir)
    /\ UNCHANGED <<settings, zipCall, zipFile, codeCalls, publishCalls, fnCode, fnVersion,
                   lambdaVersion, dist, cfg, cfgETag, updated, ifMatch, updCalls,
                   wrote, invalidations, external>>

\* the loop of the outermost call has ended: the promise of uploadToS3 resolves
\* and adapt resumes
UploadReturn(r) ==
    /\ pc[r] = "uploaded"
    /\ skipped' = [skipped EXCEPT ![r] = {}]
    /\ EndStage(r, "upload", TRUE, Undefined, "none")
    /\ UNCHANGED <<settings, zipCall, store, stack, zipFile, codeCalls, publishCalls, fnCode,
                   fnVersion, lambdaVersion, dist, cfg, cfgETag, updated, ifMatch,
                   updCalls, wrote, invalidations, external>>

---------------------------------------------------------------------------
(* zipDirectory *)

\* zipDirectory("build", "build/lambda.zip") resolves with the archive written,
\* or rejects: the archive is then incomplete, or was never created
ZipDirectory(r) ==
    /\ pc[r] = "zip"
    /\ \E z \in {"complete", "partial", "absent"} :
          /\ zipFile' = [zipFile EXCEPT ![r] = z]
          /\ EndStage(r, "zip", z = "complete", Undefined, "WriteError")
    /\ UNCHANGED <<settings, zipCall, store, stack, skipped, codeCalls, publishCalls, fnCode,
                   fnVersion, lambdaVersion, dist, cfg, cfgETag, updated, ifMatch,
                   updCalls, wrote, invalidations, external>>

---------------------------------------------------------------------------
(* deployLambdaFunction *)

\* the version PublishVersion creates after version n, as the response names it
VersionId(n) == ToString(n + 1)

\* how a command ended
Outcome(sent) == IF sent THEN "ok" ELSE "failed"

\* variant: a failed update of the code is logged and the call goes on to publish
PublishAnyway(r, e) ==
    IF pc[r] = "deploy_update"
    THEN /\ pc' = [pc EXCEPT ![r] = "deploy_publish"]
         /\ UNCHANGED <<trace, err>>
    ELSE EndStage(r, "deploy", FALSE, Undefined, e)

\* catch (error) { console.error(...); throw error; }: deployLambdaFunction
\* throws and returns no version
DeployFailed(r, e) == EndStage(r, "deploy", FALSE, Undefined, e)

\* fs.readFileSync(zipFilePath), then UpdateFunctionCode: the code is replaced,
\* or the call throws (no archive to read, or the command fails)
UpdateFunctionCode(r) ==
    /\ pc[r] = "deploy_update"
    /\ \E sent \in BOOLEAN :
          IF zipFile[r] = "absent"
          THEN /\ DeployFailed(r, "DeployError")
               /\ UNCHANGED <<fnCode, codeCalls>>
          ELSE /\ codeCalls' = [codeCalls EXCEPT ![r] = Append(@, Outcome(sent))]
               /\ IF sent
                  THEN /\ fnCode' = r
                       /\ pc' = [pc EXCEPT ![r] = "deploy_publish"]
                       /\ UNCHANGED <<trace, err>>
                  ELSE /\ DeployFailed(r, "DeployError")
                       /\ UNCHANGED fnCode
    /\ UNCHANGED <<settings, zipCall, store, stack, skipped, zipFile, publishCalls, fnVersion,
                   lambdaVersion, dist, cfg, cfgETag, updated, ifMatch, updCalls,
                   wrote, invalidations, external>>

\* after the 5 s wait, PublishVersion: a new version, whose id the response
\* carries in its optional Version field, or the call throws
PublishVersion(r) ==
    /\ pc[r] = "deploy_publish"
    /\ \E sent, named \in BOOLEAN :
          /\ publishCalls' = [publishCalls EXCEPT ![r] = Append(@, Outcome(sent))]
          /\ IF sent
             THEN LET ver == IF named THEN VersionId(fnVersion) ELSE Undefined IN
                  /\ fnVersion' = fnVersion + 1
                  /\ lambdaVersion' = [lambdaVersion EXCEPT ![r] = ver]
                  /\ EndStage(r, "deploy", TRUE, ver, "none")
             ELSE /\ DeployFailed(r, "PublishError")
                  /\ UNCHANGED <<fnVersion, lambdaVersion>>
    /\ UNCHANGED <<settings, zipCall, store, stack, skipped, zipFile, codeCalls, fnCode,
                   dist, cfg, cfgETag, updated, ifMatch, updCalls,
                   wrote, invalidations, external>>

---------------------------------------------------------------------------
(* setupCloudFrontTrigger *)

\* variant: the ARN without the version qualifier
UnqualifiedArn(arn, functionVersion) == arn

\* `${FunctionArn}:${functionVersion}`
LambdaFunctionArn(arn, functionVersion) == arn \o ":" \o functionVersion

NewAssociation(functionVersion) ==
    [EventType |-> OriginRequest,
     LambdaFunctionARN |-> LambdaFunctionArn(FunctionArn, functionVersion)]

\* DistributionConfig.DefaultCacheBehavior.LambdaFunctionAssociations?.Items || []
ExistingAssociations(c) == IF c.hasItems THEN c.Items ELSE <<>>

\* variant: the filter keyed on another event type
NotViewerRequest(association) == association.EventType # ViewerRequest

NotOriginRequest(association) == association.EventType # OriginRequest

\* variant: a list that has an 'origin-request' association is left as it is
KeepExisting(existing, newAssociation) ==
    IF \E i \in DOMAIN existing : existing[i].EventType = OriginRequest
    THEN existing
    ELSE Append(existing, newAssociation)

\* variant: push without the filter
PushOnly(existing, newAssociation) == Append(existing, newAssociation)

\* variant: the list replaced as a whole
ReplaceAll(existing, newAssociation) == <<newAssociation>>

\* existingAssociations.filter(...) followed by push(newAssociation)
UpdatedAssociations(existing, newAssociation) ==
    Append(SelectSeq(existing, NotOriginRequest), newAssociation)

\* variant: a configuration made of the association list alone
AssociationsOnly(c, items) ==
    [NoConfig EXCEPT !.defined = TRUE, !.dcb = TRUE, !.hasItems = TRUE,
                     !.Items = items, !.Quantity = Len(items)]

\* the DistributionConfig of the UpdateDistribution command: the fetched one
\* and its DefaultCacheBehavior spread, with LambdaFunctionAssociations
\* replaced by { Quantity: updatedAssociations.length, Items: updatedAssociations }
UpdatedDistributionConfig(c, items) ==
    [c EXCEPT !.hasItems = TRUE, !.Items = items, !.Quantity = Len(items)]

\* variant: the token kept is the ETag that came with the configuration
LocalsFirstToken(r, c, items, token) ==
    /\ cfg' = [cfg EXCEPT ![r] = c]
    /\ updated' = [updated EXCEPT ![r] = items]
    /\ ifMatch' = [ifMatch EXCEPT ![r] = IF token = 0 THEN 0 ELSE cfgETag[r]]

\* the locals of one call of setupCloudFrontTrigger
Locals(r, c, items, token) ==
    /\ cfg' = [cfg EXCEPT ![r] = c]
    /\ updated' = [updated EXCEPT ![r] = items]
    /\ ifMatch' = [ifMatch EXCEPT ![r] = token]

\* variant: a write refused for its token is tried again from the first fetch
ReturnRetry(r, ok, e) ==
    /\ Locals(r, NoConfig, <<>>, 0)
    /\ IF e = "ConflictError" /\ updCalls[r] = 0
       THEN /\ pc' = [pc EXCEPT ![r] = "bind_fetch"]
            /\ UNCHANGED <<trace, err>>
       ELSE EndStage(r, "trigger", ok, lambdaVersion[r], e)

\* variant: a catch block that logs and does not rethrow
ReturnSwallowed(r, ok, e) ==
    /\ EndStage(r, "trigger", TRUE, lambdaVersion[r], e)
    /\ Locals(r, NoConfig, <<>>, 0)

\* the call returns or throws: its locals are gone
Return(r, ok, e) ==
    /\ EndStage(r, "trigger", ok, lambdaVersion[r], e)
    /\ Locals(r, NoConfig, <<>>, 0)

\* the call stays in its try block, at position p
Goto(r, p) ==
    /\ pc' = [pc EXCEPT ![r] = p]
    /\ UNCHANGED <<trace, err>>

\* variant: only DistributionConfig is checked
ConfigDefined(c) == c.defined

\* whether the response holds DistributionConfig and its DefaultCacheBehavior
WellFormed(c) == c.defined /\ c.dcb

\* first GetDistributionConfig and the check of its response
GetDistributionConfig(r) ==
    /\ pc[r] = "bind_fetch"
    /\ \E sent \in BOOLEAN :
          IF ~sent
          THEN /\ Return(r, FALSE, "FetchError")
               /\ UNCHANGED cfgETag
          ELSE /\ cfgETag' = [cfgETag EXCEPT ![r] = dist.etag]
               /\ IF ~WellFormed(dist.config) THEN Return(r, FALSE, "SchemaError")
                  ELSE /\ Locals(r, dist.config, <<>>, 0)
                       /\ Goto(r, "bind_getfn")
    /\ UNCHANGED <<settings, zipCall, store, stack, skipped, zipFile, codeCalls, publishCalls, fnCode, fnVersion,
                   lambdaVersion, dist, updCalls, wrote, invalidations, external>>

\* GetFunctionConfiguration, then the new association list is built
GetFunctionConfiguration(r) ==
    /\ pc[r] = "bind_getfn"
    /\ \E sent \in BOOLEAN :
          IF ~sent THEN Return(r, FALSE, "FetchError")
          ELSE /\ Locals(r, cfg[r],
                         UpdatedAssociations(ExistingAssociations(cfg[r]),
                                             NewAssociation(lambdaVersion[r])),
                         0)
               /\ Goto(r, "bind_etag")
    /\ UNCHANGED <<settings, zipCall, store, stack, skipped, zipFile, codeCalls, publishCalls, fnCode, fnVersion, lambdaVersion,
                   dist, cfgETag, updCalls, wrote, invalidations, external>>

\* IfMatch: (await cloudFront.send(getDistConfigCommand)).ETag
GetETag(r) ==
    /\ pc[r] = "bind_etag"
    /\ \E sent \in BOOLEAN :
          IF ~sent THEN Return(r, FALSE, "FetchError")
          ELSE /\ Locals(r, cfg[r], updated[r], dist.etag)
               /\ Goto(r, "bind_update")
    /\ UNCHANGED <<settings, zipCall, store, stack, skipped, zipFile, codeCalls, publishCalls, fnCode, fnVersion, lambdaVersion,
                   dist, cfgETag, updCalls, wrote, invalidations, external>>

\* whether the distribution takes a write sent with IfMatch = token
Accepts(token) == token = dist.etag

\* UpdateDistribution with IfMatch: the configuration is replaced and gets a new
\* ETag, or the command is refused (the token is stale) and the catch rethrows
UpdateDistribution(r) ==
    /\ pc[r] = "bind_update"
    /\ updCalls' = [updCalls EXCEPT ![r] = @ + 1]
    /\ IF Accepts(ifMatch[r])
       THEN /\ dist' = [config |-> UpdatedDistributionConfig(cfg[r], updated[r]),
                        etag |-> dist.etag + 1]
            /\ wrote' = [wrote EXCEPT ![r] = dist.etag + 1]
            /\ Return(r, TRUE, "none")
       ELSE /\ Return(r, FALSE, "ConflictError")
            /\ UNCHANGED <<dist, wrote>>
    /\ UNCHANGED <<settings, zipCall, store, stack, skipped, zipFile, codeCalls, publishCalls, fnCode, fnVersion,
                   lambdaVersion, cfgETag, invalidations, external>>

---------------------------------------------------------------------------
(* invalidateCache *)

\* variant: a batch that names no path
NoPaths(paths) == [Quantity |-> 0, Items |-> <<>>]

\* InvalidationBatch.Paths: { Quantity: paths.length, Items: paths }
InvalidationPaths(paths) == [Quantity |-> Len(paths), Items |-> paths]

\* invalidateCache(distributionId, paths, region): one CreateInvalidation command
\* is sent; the call returns when the response has come (the invalidation is
\* then in progress), or throws
InvalidateCacheCall(r, paths) ==
    /\ invalidations' = [invalidations EXCEPT ![r] = Append(@, InvalidationPaths(paths))]
    /\ \E sent \in BOOLEAN :
          EndStage(r, "invalidate", sent, Undefined, "InvalidationError")

\* await invalidateCache(config.cloudfront.distributionId, ["/*"], ...)
InvalidateCache(r) ==
    /\ pc[r] = "invalidate"
    /\ InvalidateCacheCall(r, <<"/*">>)
    /\ UNCHANGED <<settings, zipCall, store, stack, skipped, zipFile, codeCalls, publishCalls,
                   fnCode, fnVersion, lambdaVersion, dist, cfg, cfgETag, updated,
                   ifMatch, updCalls, wrote, external>>

---------------------------------------------------------------------------
(* another writer of the distribution *)

\* the association list with the viewer-request association added when it has
\* none, removed when it has one
ToggleOther(items) ==
    IF \E i \in 1..Len(items) : items[i].EventType = ViewerRequest
    THEN SelectSeq(items, LAMBDA a : a.EventType # ViewerRequest)
    ELSE Append(items, OtherAssociation)

\* somebody else updates the distribution (its own read and write in one step):
\* the viewer-request association or the comment changes, and the ETag with it
ExternalUpdate ==
    /\ external < MaxExternal
    /\ dist.config.defined /\ dist.config.dcb
    /\ external' = external + 1
    /\ \E what \in {"association", "comment"} :
          dist' = [config |->
                      IF what = "comment"
                      THEN [dist.config EXCEPT !.Comment = @ + 1]
                      ELSE LET items == ToggleOther(ExistingAssociations(dist.config))
                           IN  [dist.config EXCEPT !.hasItems = TRUE, !.Items = items,
                                                   !.Quantity = Len(items)],
                   etag |-> dist.etag + 1]
    /\ UNCHANGED <<pc, trace, err, settings, zipCall, store, stack, skipped, zipFile, codeCalls, publishCalls, fnCode,
                   fnVersion, lambdaVersion, cfg, cfgETag, updated, ifMatch,
                   updCalls, wrote, invalidations>>

---------------------------------------------------------------------------

Next ==
    \/ \E r \in Runs :
          \/ Adapt(r)
          \/ BundleApp(r)
          \/ UploadToS3(r)
          \/ PutObject(r)
          \/ UploadReturn(r)
          \/ ZipDirectory(r)
          \/ UpdateFunctionCode(r)
          \/ PublishVersion(r)
          \/ GetDistributionConfig(r)
          \/ GetFunctionConfiguration(r)
          \/ GetETag(r)
          \/ UpdateDistribution(r)
          \/ InvalidateCache(r)
    \/ ExternalUpdate

Spec == Init /\ [][Next]_vars

---------------------------------------------------------------------------
(* uploadToS3 on its own: two runs that publish the same directory *)

\* out/client with directories inside directories and an empty directory
DeepDir ==
    << [name |-> "a.txt", kind |-> "file", children |-> <<>>],
       [name |-> "d", kind |-> "dir", children |->
            << [name |-> "e", kind |-> "dir", children |->
                   << [name |-> "c.js", kind |-> "file", children |-> <<>>] >>],
               [name |-> "b.css", kind |-> "file", children |-> <<>>] >>],
       [name |-> "empty", kind |-> "dir", children |-> <<>>] >>

Trees == {ClientDir, DeepDir}

\* configurations that differ in s3.prefix: none given, "", "p" and "p/"
UploadInputs ==
    {JsObject([s3 |-> JsObject([bucketName |-> JsString("b")])])} \cup
    {JsObject([s3 |-> JsObject([bucketName |-> JsString("b"), prefix |-> JsString(p)])]) :
        p \in {"", "p", "p/"}}

InitUpload ==
    /\ Fresh
    /\ BuildZip
    /\ tree \in Trees
    /\ configInput \in UploadInputs
    /\ dist = [config |-> NoConfig, etag |-> 1]

\* adapt as far as the end of uploadToS3
NextUpload ==
    \E r \in Runs :
       \/ Adapt(r)
       \/ BundleApp(r)
       \/ UploadToS3(r)
       \/ PutObject(r)
       \/ UploadReturn(r)

SpecUpload == InitUpload /\ [][NextUpload]_vars

---------------------------------------------------------------------------
(* adapt with any configuration: one run, whatever the adapter was given *)

\* what a leaf of a section may be given as
LeafValues == {JsString(""), JsString("v")}

\* the objects that give some of the keys, each with one of the leaf values
Objects(keys) ==
    {JsObject(f) : f \in UNION {[S -> LeafValues] : S \in SUBSET keys}}

\* stands for a key that is not given
Missing == [type |-> "missing"]

\* a section is not given, or is an empty string, a string, or an object
SectionInputs(keys) == {Missing, JsString(""), JsString("x")} \cup Objects(keys)

\* the object with the sections that are given
ConfigOf(sections) ==
    JsObject([k \in {k \in DOMAIN sections : sections[k] # Missing} |-> sections[k]])

\* what adapter() may be called with: nothing, a string, or an object
ConfigInputs ==
    {JsUndefined, JsString("x")} \cup
    {ConfigOf([s3 |-> a, lambda |-> b, cloudfront |-> c]) :
        a \in SectionInputs({"bucketName", "prefix", "region"}),
        b \in SectionInputs({"functionName", "region"}),
        c \in SectionInputs({"distributionId", "region"})}

InitConfig ==
    /\ Fresh
    /\ BuildZip
    /\ tree = ClientDir
    /\ configInput \in ConfigInputs
    /\ dist = [config |-> [defined |-> TRUE, dcb |-> TRUE, Policy |-> "https-only",
                           Quantity |-> 2, hasItems |-> TRUE,
                           Items |-> <<OldAssociation, OtherAssociation>>,
                           Comment |-> 0],
               etag |-> 1]

\* the first run alone
NextConfig ==
    \/ Adapt(1)
    \/ BundleApp(1)
    \/ UploadToS3(1)
    \/ PutObject(1)
    \/ UploadReturn(1)
    \/ ZipDirectory(1)
    \/ UpdateFunctionCode(1)
    \/ PublishVersion(1)
    \/ GetDistributionConfig(1)
    \/ GetFunctionConfiguration(1)
    \/ GetETag(1)
    \/ UpdateDistribution(1)
    \/ InvalidateCache(1)

SpecConfig == InitConfig /\ [][NextConfig]_vars

---------------------------------------------------------------------------
(* adapt run again: the second run starts when the first is over, and nobody *)
(* else writes the distribution                                              *)

\* the operator runs the build again after the first run has ended
Rerun ==
    /\ pc[1] \in {"done", "failed"}
    /\ Adapt(2)

NextSeq ==
    \/ Adapt(1)
    \/ Rerun
    \/ \E r \in Runs :
          \/ BundleApp(r)
          \/ UploadToS3(r)
          \/ PutObject(r)
          \/ UploadReturn(r)
          \/ ZipDirectory(r)
          \/ UpdateFunctionCode(r)
          \/ PublishVersion(r)
          \/ GetDistributionConfig(r)
          \/ GetFunctionConfiguration(r)
          \/ GetETag(r)
          \/ UpdateDistribution(r)
          \/ InvalidateCache(r)

SpecSeq == Init /\ [][NextSeq]_vars

---------------------------------------------------------------------------
(* two adapters in one process: adapt of the first, then adapt of the second *)

\* configurations that give some fields and leave the others out
CallInputs ==
    {JsUndefined} \cup
    {ConfigOf([s3 |-> a, lambda |-> b, cloudfront |-> c]) :
        a \in {Missing, JsObject([bucketName |-> JsString("v")]),
               JsObject([bucketName |-> JsString(""), prefix |-> JsString("v")])},
        b \in {Missing, JsObject([functionName |-> JsString("v")])},
        c \in {Missing, JsObject([region |-> JsString("v")])}}

InitCalls ==
    /\ Fresh
    /\ BuildZip
    /\ tree = ClientDir
    /\ configInput \in CallInputs
    /\ dist = [config |-> NoConfig, etag |-> 1]

\* adapter(configInput) is called again, with another configuration, for the
\* second run
NewAdapter ==
    /\ pc[1] # "idle" /\ pc[2] = "idle"
    /\ \E c \in CallInputs : configInput' = c
    /\ UNCHANGED <<pc, trace, err, tree, defaultConfig, config, zipCall, store, stack, skipped,
                   zipFile, codeCalls, publishCalls, fnCode, fnVersion, lambdaVersion,
                   dist, cfg, cfgETag, updated, ifMatch, updCalls, wrote,
                   invalidations, external>>

\* adapt as far as the end of bundleApp
NextCalls ==
    \/ NewAdapter
    \/ \E r \in Runs :
          \/ Adapt(r)
          \/ BundleApp(r)

SpecCalls == InitCalls /\ [][NextCalls]_vars

---------------------------------------------------------------------------
(* zipDirectory on its own *)

\* the paths a source directory may hold
ZipPaths ==
    { <<"index.mjs">>, <<"lambda.zip">>, <<"sub", "a.js">>, <<"sub", "lambda.zip">>,
      <<"prerendered", "index.html">> }

\* the out of a call: at the top of source, deeper in it, or elsewhere
ZipOuts ==
    { [inside |-> TRUE, path |-> <<"lambda.zip">>],
      [inside |-> TRUE, path |-> <<"sub", "lambda.zip">>],
      [inside |-> FALSE, path |-> <<"tmp", "lambda.zip">>] }

InitZip ==
    /\ Fresh
    /\ tree = ClientDir
    /\ configInput = DeployConfig
    /\ dist = [config |-> NoConfig, etag |-> 1]
    /\ zipSource \in SUBSET ZipPaths
    /\ zipOut \in ZipOuts

\* path.basename(out)
Basename(path) == path[Len(path)]

\* ignore: [outputFileName]: the pattern is the bare name, which the path of an
\* entry relative to cwd matches only when the entry is at the top of source
Ignored(p, out) == p = <<Basename(out.path)>>

\* archive.glob('**/*', { cwd: source, ignore: [outputFileName] }): the files
\* under source that are not ignored; fs.createWriteStream(out) has created the
\* file at out, which the walk may or may not meet when it is under source
ZipDirectoryCall ==
    /\ ~zipEntries.done
    /\ \E met \in BOOLEAN :
          LET found == IF zipOut.inside /\ (met \/ zipOut.path \in zipSource)
                       THEN zipSource \cup {zipOut.path} ELSE zipSource
          IN  zipEntries' = [done |-> TRUE,
                             files |-> {p \in found : ~Ignored(p, zipOut)}]
    /\ UNCHANGED <<pc, trace, err, settings, zipSource, zipOut, store, stack, skipped,
                   zipFile, codeCalls, publishCalls, fnCode, fnVersion, lambdaVersion,
                   dist, cfg, cfgETag, updated, ifMatch, updCalls, wrote,
                   invalidations, external>>

NextZip == ZipDirectoryCall

SpecZip == InitZip /\ [][NextZip]_vars

---------------------------------------------------------------------------
(* Properties of setupCloudFrontTrigger *)

OriginRequests(items) == SelectSeq(items, LAMBDA a : a.EventType = OriginRequest)
OtherEvents(items) == SelectSeq(items, LAMBDA a : a.EventType # OriginRequest)

\* run r's UpdateDistribution is accepted in this step
Written(r) == pc[r] = "bind_update" /\ wrote'[r] # wrote[r]

\* C1: when a call of setupCloudFrontTrigger that found at most one
\* 'origin-request' association succeeds, the distribution's list holds exactly
\* one 'origin-request' association, <FunctionArn>:<functionVersion> of the call,
\* and the associations of the other event types are those the call found, in
\* their order (those of the distribution itself when nobody wrote in between).
C1_ReplaceByKey ==
    [][\A r \in Runs :
         (Written(r) /\ Len(OriginRequests(ExistingAssociations(cfg[r]))) <= 1) =>
            /\ dist'.config.hasItems
            /\ OriginRequests(dist'.config.Items) =
                  << [EventType |-> OriginRequest,
                      LambdaFunctionARN |-> FunctionArn \o ":" \o lambdaVersion[r]] >>
            /\ OtherEvents(dist'.config.Items) = OtherEvents(ExistingAssociations(cfg[r]))
            /\ (cfgETag[r] = dist.etag =>
                  OtherEvents(dist'.config.Items)
                     = OtherEvents(ExistingAssociations(dist.config)))]_vars

\* a call that found the distribution as it first was has succeeded: the list
\* holds the other association and, after it, the call's own
C1_Witness ==
    \E r \in Runs :
       /\ wrote[r] = 2 /\ dist.etag = 2 /\ cfgETag[r] = 1
       /\ dist.config.Items = <<OtherAssociation,
                                [EventType |-> OriginRequest,
                                 LambdaFunctionARN |-> "arn:f:" \o lambdaVersion[r]]>>

\* C2: when a call of setupCloudFrontTrigger succeeds on the distribution as an
\* earlier call, made with another version id, left it, the list holds exactly
\* one 'origin-request' association, that of the second call; the first call's
\* association is gone and the list is as long as the first call left it.
C2_NoAccumulation ==
    [][\A r, q \in Runs :
         (/\ r # q /\ Written(r)
          /\ wrote[q] # 0 /\ cfgETag[r] = wrote[q]
          /\ lambdaVersion[r] # lambdaVersion[q]) =>
            /\ Len(OriginRequests(dist'.config.Items)) = 1
            /\ OriginRequests(dist'.config.Items)[1].LambdaFunctionARN
                  = FunctionArn \o ":" \o lambdaVersion[r]
            /\ \A i \in DOMAIN dist'.config.Items :
                  dist'.config.Items[i].LambdaFunctionARN
                     # FunctionArn \o ":" \o lambdaVersion[q]
            /\ Len(dist'.config.Items) = Len(cfg[r].Items)]_vars

\* two calls in sequence, with different versions, have both succeeded
C2_Witness ==
    \E r, q \in Runs :
       /\ r # q /\ wrote[q] # 0 /\ cfgETag[r] = wrote[q] /\ wrote[r] = dist.etag
       /\ lambdaVersion[r] # lambdaVersion[q]
       /\ pc[r] = "done" /\ pc[q] = "done"

\* C3: a run's write is accepted only if the distribution configuration has not
\* changed since the run fetched the configuration it modifies: the ETag its
\* write produced follows the ETag that came with that configuration.
C3_WriteOnlyIfUnchanged ==
    \A r \in Runs : wrote[r] # 0 => wrote[r] = cfgETag[r] + 1

\* C4: when the token sent with UpdateDistribution is not the distribution's
\* current token, the call fails with the conflict error, which adapt's caller
\* gets, and the distribution (associations and token) is as it was.
C4_ConflictLeavesDistribution ==
    [][\A r \in Runs :
         (pc[r] = "bind_update" /\ updCalls'[r] # updCalls[r] /\ ifMatch[r] # dist.etag) =>
            /\ dist' = dist
            /\ wrote'[r] = wrote[r]
            /\ pc'[r] = "failed"
            /\ err'[r] = "ConflictError"]_vars

\* a call has failed with the conflict error
C4_Witness ==
    \E r \in Runs : pc[r] = "failed" /\ err[r] = "ConflictError" /\ updCalls[r] = 1

\* C5: while the distribution configuration is missing or has no
\* DefaultCacheBehavior, a run that reached setupCloudFrontTrigger has sent no
\* UpdateDistribution and either still waits for its first fetch or has failed;
\* the distribution has never been written.
C5_MalformedNeverWritten ==
    ~(dist.config.defined /\ dist.config.dcb) =>
        /\ dist.etag = 1
        /\ \A r \in Runs :
              /\ updCalls[r] = 0 /\ wrote[r] = 0
              /\ (\E i \in DOMAIN trace[r] : trace[r][i].stage = "trigger") =>
                    /\ pc[r] \in {"bind_fetch", "failed"}
                    /\ pc[r] = "failed" => err[r] \in {"SchemaError", "FetchError"}

\* a call has failed on a configuration without DefaultCacheBehavior
C5_Witness ==
    \E r \in Runs :
       /\ dist.config.defined /\ ~dist.config.dcb
       /\ pc[r] = "failed" /\ err[r] = "SchemaError"

\* C6: the distribution's association list never holds two associations of the
\* same event type.
C6_OnePerEventType ==
    LET items == IF dist.config.hasItems THEN dist.config.Items ELSE <<>> IN
    \A i, j \in DOMAIN items : items[i].EventType = items[j].EventType => i = j

\* both runs and another writer have written the distribution
C6_Witness ==
    /\ \A r \in Runs : wrote[r] # 0
    /\ external = 1
    /\ Len(dist.config.Items) = 2

---------------------------------------------------------------------------
(* Properties of adapter.adapt *)

StageNames(tr) == [i \in DOMAIN tr |-> tr[i].stage]

\* C7: a stage that failed is the last stage its run started, and the run has
\* failed: no stage failure lets adapt go on.
C7_AnyFailureStops ==
    \A r \in Runs : \A i \in DOMAIN trace[r] :
        trace[r][i].status = "failed" => i = Len(trace[r]) /\ pc[r] = "failed"

\* place of a stage in the order Packager, Asset Publisher, Function Deployer,
\* Edge Trigger Binder, Cache Invalidator
PipelineRank(s) ==
    CASE s = "zip" -> 1 [] s = "upload" -> 2 [] s = "deploy" -> 3
      [] s = "trigger" -> 4 [] s = "invalidate" -> 5

\* place of a stage in the order Asset Publisher, Packager, Function Deployer,
\* Edge Trigger Binder, Cache Invalidator
AdaptRank(s) ==
    CASE s = "upload" -> 1 [] s = "zip" -> 2 [] s = "deploy" -> 3
      [] s = "trigger" -> 4 [] s = "invalidate" -> 5

\* the five stages a run has started, in the order it started them
FiveStages(r) == SelectSeq(trace[r], LAMBDA e : e.stage # "bundle")

\* C8 as stated: the stages start in the order Packager, Asset Publisher,
\* Function Deployer, Edge Trigger Binder, Cache Invalidator, each after the one
\* before it has ended.
C8_PackagerFirst ==
    \A r \in Runs : \A i, j \in DOMAIN FiveStages(r) :
        i < j => /\ PipelineRank(FiveStages(r)[i].stage) < PipelineRank(FiveStages(r)[j].stage)
                 /\ FiveStages(r)[i].status # "running"

\* C8, amended: the stages start in the order Asset Publisher, Packager,
\* Function Deployer, Edge Trigger Binder, Cache Invalidator, each after the one
\* before it has ended (succeeded or failed).
C8_PublisherFirst ==
    \A r \in Runs : \A i, j \in DOMAIN FiveStages(r) :
        i < j => /\ AdaptRank(FiveStages(r)[i].stage) < AdaptRank(FiveStages(r)[j].stage)
                 /\ FiveStages(r)[i].status # "running"

\* a run has gone through the five stages
C8_Witness ==
    \E r \in Runs :
       /\ pc[r] = "done"
       /\ Len(FiveStages(r)) = 5
       /\ FiveStages(r)[1].stage = "upload" /\ FiveStages(r)[2].stage = "zip"

DocumentedSteps == <<"bundle", "upload", "zip", "deploy", "trigger", "invalidate">>
WithoutTrigger == <<"bundle", "upload", "zip", "deploy", "invalidate">>

\* C9: the steps adapt has started are the first steps of: bundle app, upload to
\* S3, zip, deploy the function, set up the trigger (left out only when no
\* version was obtained), invalidate the cache; all but the last have ended, and
\* a run that is over has ended its last step too.
C9_DocumentedOrder ==
    \A r \in Runs :
       LET tr == trace[r]
           n == Len(tr)
       IN /\ \/ StageNames(tr) = SubSeq(DocumentedSteps, 1, n)
             \/ /\ n = 5 /\ StageNames(tr) = WithoutTrigger
                /\ lambdaVersion[r] = Undefined
          /\ \A i \in 1..(n - 1) : tr[i].status # "running"
          /\ pc[r] \in {"done", "failed"} => tr[n].status # "running"
          /\ pc[r] = "done" => tr[n] = [stage |-> "invalidate", status |-> "ok"]

\* a run has gone through the six steps, all of them successful
C9_Witness ==
    \E r \in Runs :
       /\ pc[r] = "done"
       /\ StageNames(trace[r]) = DocumentedSteps
       /\ \A i \in DOMAIN trace[r] : trace[r][i].status = "ok"

\* C10: while nobody has written the distribution since run r's write, its one
\* 'origin-request' association is <FunctionArn>:<version>, the version being
\* the one PublishVersion returned to that run (defined, and a version the
\* function has); so it is after a run that completed with no other writer.
C10_BoundToPublishedVersion ==
    \A r \in Runs :
       (wrote[r] # 0 /\ wrote[r] = dist.etag) =>
          /\ lambdaVersion[r] # Undefined
          /\ \E n \in 1..fnVersion : lambdaVersion[r] = ToString(n)
          /\ OriginRequests(dist.config.Items) =
                << [EventType |-> OriginRequest,
                    LambdaFunctionARN |-> FunctionArn \o ":" \o lambdaVersion[r]] >>

\* a run has completed and its association stands
C10_Witness ==
    \E r \in Runs : pc[r] = "done" /\ wrote[r] # 0 /\ wrote[r] = dist.etag /\ external = 0

---------------------------------------------------------------------------
(* Properties of invalidateCache, of the version test and of *)
(* deployLambdaFunction *)

\* how stage s of run r stands: "none" while the run has not started it
Status(r, s) ==
    IF \E i \in DOMAIN trace[r] : trace[r][i].stage = s
    THEN trace[r][CHOOSE i \in DOMAIN trace[r] : trace[r][i].stage = s].status
    ELSE "none"

C12_TriggerIffVersion ==
    \A r \in Runs :
       /\ Status(r, "trigger") # "none" <=>
             Status(r, "deploy") = "ok" /\ lambdaVersion[r] # Undefined
       /\ (Status(r, "deploy") = "ok" /\ lambdaVersion[r] = Undefined) =>
             /\ cfgETag[r] = 0 /\ updCalls[r] = 0 /\ wrote[r] = 0
             /\ Status(r, "invalidate") # "none"
             /\ pc[r] \in {"done", "failed"} => Len(invalidations[r]) = 1

\* a run got no version, left the trigger out and had its invalidation accepted
C12_Witness ==
    \E r \in Runs :
       /\ pc[r] = "done"
       /\ Status(r, "deploy") = "ok" /\ lambdaVersion[r] = Undefined
       /\ Status(r, "trigger") = "none"
       /\ Len(invalidations[r]) = 1

\* C19: a call of deployLambdaFunction sends at most one UpdateFunctionCode and
\* at most one PublishVersion, the latter only after the former succeeded; when
\* either fails, or the archive cannot be read, the call throws, no version is
\* returned and the run stops; a version is returned only after both succeeded.
C19_TwoPhaseNoRetry ==
    \A r \in Runs :
       /\ Len(codeCalls[r]) <= 1 /\ Len(publishCalls[r]) <= 1
       /\ publishCalls[r] # <<>> => codeCalls[r] = <<"ok">>
       /\ (codeCalls[r] = <<"failed">> \/ publishCalls[r] = <<"failed">>) =>
             /\ Status(r, "deploy") = "failed" /\ pc[r] = "failed"
             /\ lambdaVersion[r] = Undefined
       /\ Status(r, "deploy") = "failed" =>
             /\ lambdaVersion[r] = Undefined /\ pc[r] = "failed"
             /\ Status(r, "trigger") = "none" /\ Status(r, "invalidate") = "none"
       /\ lambdaVersion[r] # Undefined =>
             codeCalls[r] = <<"ok">> /\ publishCalls[r] = <<"ok">>

\* the code update of a run failed: the run stopped and sent no PublishVersion
C19_Witness ==
    \E r \in Runs :
       /\ codeCalls[r] = <<"failed">> /\ publishCalls[r] = <<>>
       /\ pc[r] = "failed" /\ err[r] = "DeployError"

---------------------------------------------------------------------------
(* Properties of uploadToS3 *)

\* the paths of the regular files of a directory, relative to it
RECURSIVE RelPaths(_)
RelPaths(items) ==
    UNION { IF items[i].kind = "file" THEN {items[i].name}
            ELSE {items[i].name \o "/" \o p : p \in RelPaths(items[i].children)} :
            i \in DOMAIN items }

\* prefix/relativePath, the prefix left out when it is empty
KeyOf(prefix, rel) == IF prefix = "" THEN rel ELSE prefix \o "/" \o rel

\* the keys the files of the tree are to have under the configured prefix
ExpectedKeys == {KeyOf(S3Prefix(configInput), p) : p \in RelPaths(tree)}

StartsWithSlash(k) == Len(k) > 0 /\ SubSeq(k, 1, 1) = "/"

HasEmptySegment(k) ==
    \/ k = ""
    \/ SubSeq(k, 1, 1) = "/"
    \/ SubSeq(k, Len(k), Len(k)) = "/"
    \/ \E i \in 1..(Len(k) - 1) : SubSeq(k, i, i + 1) = "//"

\* C13: the keys whose upload failed are keys of the tree; after a failure the
\* call is still walking or has ended its loop; when the loop has ended, every
\* file whose upload did not fail is in the bucket; and uploadToS3 throws only
\* for a directory it cannot read, never for a failed upload.
C13_FailureSkipped ==
    \A r \in Runs :
       /\ skipped[r] \subseteq ExpectedKeys
       /\ skipped[r] # {} => pc[r] \in {"put", "uploaded"}
       /\ pc[r] = "uploaded" => (ExpectedKeys \ skipped[r]) \subseteq store
       /\ Status(r, "upload") = "failed" => err[r] = "IOError"

\* the only run so far failed to upload some files, not all, and ended its
\* walk with the others uploaded
C13_Witness ==
    \E r \in Runs :
       /\ pc[r] = "uploaded"
       /\ \A q \in Runs \ {r} : pc[q] = "idle"
       /\ skipped[r] # {} /\ skipped[r] # ExpectedKeys
       /\ store = ExpectedKeys \ skipped[r]

\* C14 as stated: the bucket holds only keys prefix/relativePath (the relative
\* path alone when the prefix is empty) of files of the tree, all of them once a
\* walk has ended with no failure, and no key starts with "/" or has an empty
\* path segment.
C14_KeyLayout ==
    /\ store \subseteq ExpectedKeys
    /\ \A r \in Runs : (pc[r] = "uploaded" /\ skipped[r] = {}) => ExpectedKeys \subseteq store
    /\ \A k \in store : ~StartsWithSlash(k) /\ ~HasEmptySegment(k)

\* C15: whichever runs have uploaded before, and however often, the bucket
\* holds no key but those of the tree under the prefix, and exactly those when
\* a walk has ended with no failure.
C15_SameKeysTwice ==
    /\ store \subseteq ExpectedKeys
    /\ \A r \in Runs : (pc[r] = "uploaded" /\ skipped[r] = {}) => store = ExpectedKeys
    /\ Cardinality(ExpectedKeys) = Cardinality(RelPaths(tree))

\* the first run has returned from uploadToS3, the second has ended its walk
\* with no failure, and the bucket holds one key for each file
C15_Witness ==
    /\ Status(1, "upload") = "ok"
    /\ pc[2] = "uploaded" /\ skipped[2] = {}
    /\ store = ExpectedKeys
    /\ Cardinality(store) = Cardinality(RelPaths(tree))

---------------------------------------------------------------------------
(* Properties of the effective configuration *)

\* the sections of the configuration and, for a section, its fields
Sections == DOMAIN Defaults.get
Fields(S) == DOMAIN Defaults.get[S].get

\* a section as the user may give it: an object, or nothing that counts
GivenWell(S) ==
    isObject(Get(configInput, S)) \/ ~Truthy(Get(configInput, S))

\* what the user gave for field k of section S (undefined when nothing)
Given(S, k) == Get(Get(configInput, S), k)

\* the default of field k of section S
Default(S, k) == Defaults.get[S].get[k]

\* C16: in the configuration adapt works with, each field of each section the
\* user gave as an object (or did not give) is the user's value when that is a
\* non-empty string and the default otherwise, whatever the other fields of the
\* section are; each section has all its fields.
C16_MergeOverDefaults ==
    \A r \in Runs : config[r] # JsUndefined =>
       \A S \in Sections : GivenWell(S) =>
          /\ isObject(Get(config[r], S))
          /\ DOMAIN Get(config[r], S).get = Fields(S)
          /\ \A k \in Fields(S) :
                Get(Get(config[r], S), k) =
                   IF Given(S, k) \in {JsUndefined, JsString("")}
                   THEN Default(S, k) ELSE Given(S, k)

\* the user gave a bucket name and an empty region and no prefix: the run works
\* with that bucket name, the default region and the default prefix
C16_Witness ==
    /\ Get(configInput, "s3") =
          JsObject([bucketName |-> JsString("v"), region |-> JsString("")])
    /\ trace[1] # <<>>
    /\ Get(config[1], "s3") =
          JsObject([bucketName |-> JsString("v"), prefix |-> JsString(""),
                    region |-> JsString("ap-south-1")])

\* C17 as stated: once a run has started a stage, every field of every section
\* of its configuration is a non-empty string.
C17_FieldsNonEmpty ==
    \A r \in Runs : trace[r] # <<>> =>
       \A S \in Sections : \A k \in Fields(S) :
          /\ Get(Get(config[r], S), k).type = "string"
          /\ Get(Get(config[r], S), k).str # ""

\* a configuration that is not an object, or has a section that is not an object
Malformed(c) ==
    \/ ~isObject(c)
    \/ \E S \in DOMAIN c.get : ~isObject(c.get[S])

\* C18 as stated: with a malformed configuration no run starts a stage, no file
\* is uploaded, no command is sent to the function or the distribution, and no
\* invalidation is requested.
C18_MalformedStopsAdapt ==
    Malformed(configInput) =>
       /\ store = {}
       /\ \A r \in Runs :
             /\ trace[r] = <<>> /\ pc[r] \in {"idle", "failed"}
             /\ codeCalls[r] = <<>> /\ publishCalls[r] = <<>>
             /\ updCalls[r] = 0 /\ invalidations[r] = <<>>

---------------------------------------------------------------------------
(* Properties of a second run *)

\* run r has started the six stages and each has succeeded
AllOk(r) ==
    /\ StageNames(trace[r]) = DocumentedSteps
    /\ \A i \in DOMAIN trace[r] : trace[r][i].status = "ok"

\* C20: when adapt is run again after the first run has ended, wherever that
\* run failed: the bucket never holds a key that is not one of the tree and
\* holds them all once the second walk has ended with no failed upload; no key
\* is ever removed and no version number is ever taken back; and when the
\* second run is done with all its stages successful, the function's code is
\* that run's archive, its version is the newest, and the distribution has
\* exactly one 'origin-request' association, which points at that version.
C20_RerunSafe ==
    /\ [](store \subseteq ExpectedKeys)
    /\ []((pc[2] = "uploaded" /\ skipped[2] = {}) => store = ExpectedKeys)
    /\ []((pc[2] = "done" /\ AllOk(2)) =>
             /\ fnCode = 2
             /\ lambdaVersion[2] = ToString(fnVersion)
             /\ dist.config.hasItems
             /\ OriginRequests(dist.config.Items) =
                   << [EventType |-> OriginRequest,
                       LambdaFunctionARN |-> FunctionArn \o ":" \o lambdaVersion[2]] >>)
    /\ [][store \subseteq store' /\ fnVersion' >= fnVersion]_vars

\* the first run published version 1 and failed in setupCloudFrontTrigger; the
\* second run went through: all the keys, version 2, one association at version 2
C20_Witness ==
    /\ pc[1] = "failed" /\ Status(1, "trigger") = "failed" /\ lambdaVersion[1] = "1"
    /\ pc[2] = "done" /\ AllOk(2)
    /\ store = ExpectedKeys
    /\ fnVersion = 2 /\ lambdaVersion[2] = "2"
    /\ OriginRequests(dist.config.Items) =
          << [EventType |-> OriginRequest, LambdaFunctionARN |-> "arn:f:2"] >>

---------------------------------------------------------------------------
(* Properties of the archive that is deployed *)

\* C26 as stated: a run sends UpdateFunctionCode only when its zip stage has
\* ended successfully and lambda.zip is the complete archive of that stage.
C26_OnlyFinishedArchive ==
    \A r \in Runs :
       codeCalls[r] # <<>> => Status(r, "zip") = "ok" /\ zipFile[r] = "complete"

---------------------------------------------------------------------------
(* Properties of the write of setupCloudFrontTrigger *)

\* C22: a call comes to its UpdateDistribution only from the second
\* GetDistributionConfig; that fetch is made with the new association list
\* already built, changes neither the list nor the configuration to submit, and
\* its ETag, the distribution's at that moment, is the IfMatch of the write:
\* the write is accepted exactly when the distribution still has that ETag,
\* whatever the ETag of the first fetch was.
C22_TokenOfSecondFetch ==
    [][\A r \in Runs :
         /\ (pc'[r] = "bind_update" /\ pc[r] # "bind_update") =>
               /\ pc[r] = "bind_etag"
               /\ updated[r] # <<>>
               /\ updated[r][Len(updated[r])] = NewAssociation(lambdaVersion[r])
               /\ updated'[r] = updated[r] /\ cfg'[r] = cfg[r]
               /\ ifMatch'[r] = dist.etag
         /\ pc[r] = "bind_update" =>
               /\ pc'[r] # pc[r] => updCalls'[r] = updCalls[r] + 1
               /\ Written(r) <=> (pc'[r] # pc[r] /\ ifMatch[r] = dist.etag)]_vars

\* a call is about to write with the ETag of its second fetch, which is the
\* distribution's and is not the ETag its configuration came with
C22_Witness ==
    \E r \in Runs :
       /\ pc[r] = "bind_update"
       /\ ifMatch[r] = dist.etag
       /\ ifMatch[r] # cfgETag[r]

\* C23: a run sends at most one UpdateDistribution; a write that is refused
\* leaves the distribution as it is and ends the call, and the run, with the
\* conflict error; and a run that has failed sends and fetches nothing more.
C23_SingleShot ==
    /\ [](\A r \in Runs :
            /\ updCalls[r] <= 1
            /\ err[r] = "ConflictError" =>
                  /\ pc[r] = "failed" /\ Status(r, "trigger") = "failed"
                  /\ updCalls[r] = 1 /\ wrote[r] = 0
                  /\ cfg[r] = NoConfig /\ updated[r] = <<>> /\ ifMatch[r] = 0)
    /\ [][\A r \in Runs :
            /\ (pc[r] = "bind_update" /\ pc'[r] # pc[r] /\ ~Written(r)) =>
                  /\ pc'[r] = "failed" /\ err'[r] = "ConflictError"
                  /\ dist' = dist
            /\ pc[r] = "failed" =>
                  /\ pc'[r] = "failed" /\ trace'[r] = trace[r]
                  /\ updCalls'[r] = updCalls[r] /\ cfgETag'[r] = cfgETag[r]
                  /\ wrote'[r] = wrote[r]]_vars

\* the one write of a run was refused and the run has failed
C23_Witness ==
    \E r \in Runs :
       /\ err[r] = "ConflictError" /\ pc[r] = "failed"
       /\ updCalls[r] = 1 /\ wrote[r] = 0

\* C24: the configuration a run's accepted write puts in place is the one the
\* run fetched but for the association list: it has DistributionConfig and
\* DefaultCacheBehavior, the Comment and the ViewerProtocolPolicy of the fetched
\* one, and a Quantity that is the number of its Items; when nobody has written
\* since the run's first fetch, these are the distribution's own Comment and
\* ViewerProtocolPolicy, and the associations of the other event types are kept.
C24_OnlyAssociationsChange ==
    [][\A r \in Runs : Written(r) =>
         /\ dist'.config =
               [cfg[r] EXCEPT !.hasItems = TRUE, !.Items = dist'.config.Items,
                              !.Quantity = dist'.config.Quantity]
         /\ dist'.config.Quantity = Len(dist'.config.Items)
         /\ cfgETag[r] = dist.etag =>
               /\ dist'.config.defined /\ dist'.config.dcb
               /\ dist'.config.Comment = dist.config.Comment
               /\ dist'.config.Policy = dist.config.Policy
               /\ OtherEvents(dist'.config.Items)
                     = OtherEvents(ExistingAssociations(dist.config))]_vars

\* a run has written a distribution that nobody had written since the run's
\* first fetch: the policy and the comment are as they were, and the two
\* associations are counted
C24_Witness ==
    \E r \in Runs :
       /\ wrote[r] # 0 /\ wrote[r] = dist.etag
       /\ cfgETag[r] = wrote[r] - 1
       /\ dist.config.Policy = "https-only"
       /\ dist.config.Quantity = 2 /\ Len(dist.config.Items) = 2

---------------------------------------------------------------------------
(* Properties of the defaults *)

\* C25 as stated: defaultConfig stays as the module created it, and the
\* configuration the second run works with is the merge of its adapter's
\* configuration over those defaults, whatever the first run was given.
C25_DefaultsUnchanged ==
    /\ defaultConfig = Defaults
    /\ config[2] # JsUndefined => config[2] = deepMerge(Defaults, configInput)

---------------------------------------------------------------------------
(* Properties of zipDirectory *)

====
